---- MODULE Spec2Model ----
(***************************************************************************)
(* Model of GPT_RP.py: the SoloEngine rule-based responder (mood detection *)
(* by keyword, template selection, str.format rendering), its YAML loader, *)
(* the lazily initialised module-level _engine and the three routes.       *)
(*                                                                         *)
(* Strings are sequences of characters; a character is a one-element TLA+  *)
(* string.  The CJK characters of the keyword table are written with ASCII *)
(* tokens, each standing for ONE character:                                *)
(*   "nu" = U+6012, "sheng" = U+751F, "qi" = U+6C23, "kai" = U+958B,       *)
(*   "xin" = U+5FC3, "xi" = U+559C.                                        *)
(***************************************************************************)
EXTENDS Integers, Sequences, FiniteSets, TLC

VARIABLES
    source,    \* what the file at CHAR_YAML_PATH currently holds
    _engine,   \* the module-level _engine: None or the SoloEngine
    reads,     \* how often from_yaml has opened the source
    writes,    \* how often the global _engine has been assigned
    pc,        \* each worker thread's position in its handler
    loc,       \* each worker thread's request and local eng
    used,      \* the engine instances requests have called into
    arg,       \* the argument of a direct _detect_mood call
    last       \* the last completed call as its caller saw it

vars == <<source, _engine, reads, writes, pc, loc, used, arg, last>>

----------------------------------------------------------------------------
(* Bounds *)

MaxLen == 4
MaxReads == 3
NThreads == 2

----------------------------------------------------------------------------
(* Strings *)

UpperCase == <<"A","B","C","D","E","F","G","H","I","J","K","L","M",
               "N","O","P","Q","R","S","T","U","V","W","X","Y","Z">>
LowerCase == <<"a","b","c","d","e","f","g","h","i","j","k","l","m",
               "n","o","p","q","r","s","t","u","v","w","x","y","z">>

\* str.lower() on one character
LowerChar(c) ==
    IF \E i \in 1..Len(UpperCase) : UpperCase[i] = c
    THEN LowerCase[CHOOSE i \in 1..Len(UpperCase) : UpperCase[i] = c]
    ELSE c

\* str.lower()
lower(s) == [i \in 1..Len(s) |-> LowerChar(s[i])]

\* Python's  x in s  for strings: x occurs in s as a contiguous substring
StrIn(x, s) ==
    \E i \in 1..(Len(s) - Len(x) + 1) : SubSeq(s, i, i + Len(x) - 1) = x

AngerWords == { <<"a","n","g","r","y">>, <<"m","a","d">>, <<"nu">>, <<"sheng","qi">> }
HappyWords == { <<"h","a","p","p","y">>, <<"l","o","v","e">>, <<"kai","xin">>, <<"xi">> }

_detect_mood_happy_first(msg) ==
    LET low == lower(msg)
    IN  IF \E x \in HappyWords : StrIn(x, low) THEN "happy"
        ELSE IF \E x \in AngerWords : StrIn(x, low) THEN "angry"
        ELSE "neutral"

_detect_mood(msg) ==
    LET low == lower(msg)
    IN  IF \E x \in AngerWords : StrIn(x, low) THEN "angry"
        ELSE IF \E x \in HappyWords : StrIn(x, low) THEN "happy"
        ELSE "neutral"

----------------------------------------------------------------------------
(* Messages *)

Alphabet == {"m", "a", "d", "M", "nu", "xi", "x"}

RECURSIVE SeqsUpTo(_, _)
SeqsUpTo(S, n) ==
    IF n = 0 THEN { <<>> }
    ELSE LET shorter == SeqsUpTo(S, n - 1)
         IN  shorter \cup { Append(s, c) : s \in { t \in shorter : Len(t) = n - 1 }, c \in S }

M_so_mad == <<"I"," ","a","m"," ","s","o"," ","m","a","d">>
M_hello  == <<"h","e","l","l","o"," ","t","h","e","r","e">>
M_ANGRY  == <<"A","N","G","R","Y","!">>
M_Happy  == <<"s","o"," ","H","a","p","p","y">>
M_gloves == <<"g","L","O","V","E","s">>
M_nomads == <<"n","o","m","a","d","s">>
M_shengqi == <<"sheng","qi">>
M_kaixin == <<"kai","xin","!">>
M_sheng  == <<"sheng","x","qi">>
M_love_mad == <<"l","o","v","e"," ","M","A","D">>
M_braces == <<"{","n","a","m","e","}">>

LongMessages == { M_so_mad, M_hello, M_ANGRY, M_Happy, M_gloves, M_nomads,
                  M_shengqi, M_kaixin, M_sheng, M_love_mad, M_braces }

AllMessages == SeqsUpTo(Alphabet, MaxLen) \cup LongMessages

----------------------------------------------------------------------------
(* The last completed call, as the caller observes it *)

NoCall == [op |-> "none", msg |-> <<>>, status |-> "none", err |-> "none",
           reply |-> <<>>, mood |-> "none", inst |-> 0, nreads |-> 0]

\* What open() and yaml.safe_load() make of the file at CHAR_YAML_PATH:
\* "unreadable" (open raises), "malformed" (safe_load raises), "empty"
\* (safe_load returns None) or "mapping" (safe_load returns the dict map).
File(kind, map) == [kind |-> kind, map |-> map]

EmptyMap == <<>>

Threads == 1..NThreads

\* the unset module-level reference (_engine = None)
None == [id |-> 0, name |-> <<>>, templates |-> <<>>]

\* a worker thread's request and its local variable eng
NoRequest == [op |-> "none", msg |-> <<>>, eng |-> None]

----------------------------------------------------------------------------
(* Mood classifier on its own *)

InitMood ==
    /\ source = File("unreadable", EmptyMap)
    /\ _engine = None
    /\ reads = 0
    /\ writes = 0
    /\ pc = [t \in Threads |-> "idle"]
    /\ loc = [t \in Threads |-> NoRequest]
    /\ used = {}
    /\ arg \in AllMessages
    /\ last = NoCall

DetectMood ==
    /\ last.op = "none"
    /\ last' = [NoCall EXCEPT !.op = "_detect_mood", !.msg = arg,
                              !.status = "ok", !.mood = _detect_mood(arg)]
    /\ UNCHANGED <<source, _engine, reads, writes, pc, loc, used, arg>>

NextMood == DetectMood

SpecMood == InitMood /\ [][NextMood]_vars

\* case-insensitive containment stated on the message as given
HasWord(msg, W) ==
    \E w \in W : \E i \in 1..Len(msg) :
        /\ i + Len(w) - 1 <= Len(msg)
        /\ \A j \in 1..Len(w) : LowerChar(msg[i + j - 1]) = w[j]

\* C1: _detect_mood returns "angry" whenever the message contains an anger
\* keyword in any letter case (a happiness keyword notwithstanding), "happy"
\* when it contains a happiness keyword and no anger keyword, and "neutral"
\* when it contains neither.
C1_MoodByKeyword ==
    last.op = "_detect_mood" =>
        /\ HasWord(last.msg, AngerWords) => last.mood = "angry"
        /\ (HasWord(last.msg, HappyWords) /\ ~HasWord(last.msg, AngerWords))
              => last.mood = "happy"
        /\ (~HasWord(last.msg, HappyWords) /\ ~HasWord(last.msg, AngerWords))
              => last.mood = "neutral"

\* an upper-case anger keyword together with a happiness keyword
C1_Witness ==
    /\ last.op = "_detect_mood"
    /\ last.msg = M_love_mad
    /\ last.mood = "angry"

----------------------------------------------------------------------------
(* str.format(name=..., msg=...) *)

Digits == {"0", "1", "2", "3", "4", "5", "6", "7", "8", "9"}
DigitSeq == <<"0", "1", "2", "3", "4", "5", "6", "7", "8", "9">>
DigitValue(c) == (CHOOSE i \in 1..10 : DigitSeq[i] = c) - 1

Min(S) == CHOOSE x \in S : \A y \in S : x <= y

Lit(c) == [k |-> "lit", c |-> c, name |-> <<>>, spec |-> <<>>]
Bad == [k |-> "bad", c |-> "", name |-> <<>>, spec |-> <<>>]

\* a replacement field  field_name[:format_spec]
Field(f) ==
    LET colons == { i \in 1..Len(f) : f[i] = ":" }
    IN  IF colons = {}
        THEN [k |-> "field", c |-> "", name |-> f, spec |-> <<>>]
        ELSE [k |-> "field", c |-> "", name |-> SubSeq(f, 1, Min(colons) - 1),
              spec |-> SubSeq(f, Min(colons) + 1, Len(f))]

\* The format string split, left to right, into literal characters and
\* replacement fields: "{{" and "}}" are literal braces, a "{" opens a field
\* that runs to the next "}", and an unmatched brace ends the scan with "bad".
RECURSIVE ParseFrom(_, _)
ParseFrom(t, i) ==
    IF i > Len(t) THEN <<>>
    ELSE IF t[i] = "{" THEN
        IF i < Len(t) /\ t[i + 1] = "{" THEN <<Lit("{")>> \o ParseFrom(t, i + 2)
        ELSE LET closers == { j \in (i + 1)..Len(t) : t[j] = "}" }
             IN  IF closers = {} THEN <<Bad>>
                 ELSE <<Field(SubSeq(t, i + 1, Min(closers) - 1))>>
                          \o ParseFrom(t, Min(closers) + 1)
    ELSE IF t[i] = "}" THEN
        IF i < Len(t) /\ t[i + 1] = "}" THEN <<Lit("}")>> \o ParseFrom(t, i + 2)
        ELSE <<Bad>>
    ELSE <<Lit(t[i])>> \o ParseFrom(t, i + 1)

Parse(t) == ParseFrom(t, 1)

F_name == <<"n", "a", "m", "e">>
F_msg  == <<"m", "s", "g">>

\* one replacement field rendered against the keyword arguments name and msg;
\* the format specs that occur are the empty one and a precision ".N"
RenderField(it, name, msg) ==
    LET known == it.name = F_name \/ it.name = F_msg
        value == IF it.name = F_name THEN name ELSE msg
    IN  IF it.name = <<>> \/ \A i \in 1..Len(it.name) : it.name[i] \in Digits
        THEN [err |-> "IndexError", text |-> <<>>]
        ELSE IF ~known THEN [err |-> "KeyError", text |-> <<>>]
        ELSE IF it.spec = <<>> THEN [err |-> "none", text |-> value]
        ELSE IF Len(it.spec) = 2 /\ it.spec[1] = "." /\ it.spec[2] \in Digits
        THEN LET n == DigitValue(it.spec[2])
             IN  [err |-> "none",
                  text |-> IF n < Len(value) THEN SubSeq(value, 1, n) ELSE value]
        ELSE [err |-> "ValueError", text |-> <<>>]

RECURSIVE RenderItems(_, _, _, _)
RenderItems(items, i, name, msg) ==
    IF i > Len(items) THEN [err |-> "none", text |-> <<>>]
    ELSE LET it == items[i]
             head == IF it.k = "lit" THEN [err |-> "none", text |-> <<it.c>>]
                     ELSE IF it.k = "bad" THEN [err |-> "ValueError", text |-> <<>>]
                     ELSE RenderField(it, name, msg)
         IN  IF head.err # "none" THEN head
             ELSE LET rest == RenderItems(items, i + 1, name, msg)
                  IN  IF rest.err # "none" THEN rest
                      ELSE [err |-> "none", text |-> head.text \o rest.text]

format(template, name, msg) == RenderItems(Parse(template), 1, name, msg)

----------------------------------------------------------------------------
(* SoloEngine *)

Moods == {"angry", "happy", "neutral"}

DefaultTemplate == <<"{", "m", "s", "g", "}">>

\* bool(str)
Truthy(s) == s # <<>>

\* templates.get(mood) or templates.get("neutral", "{msg}")
SelectTemplate(templates, mood) ==
    IF mood \in DOMAIN templates /\ Truthy(templates[mood]) THEN templates[mood]
    ELSE IF "neutral" \in DOMAIN templates THEN templates["neutral"]
    ELSE DefaultTemplate

respond_lowered(self, user_msg) ==
    LET mood == _detect_mood(user_msg)
        template == SelectTemplate(self.templates, mood)
        reply_text == format(template, self.name, lower(user_msg))
    IN  IF reply_text.err # "none"
        THEN [NoCall EXCEPT !.op = "respond", !.msg = user_msg, !.status = "raised",
                            !.err = reply_text.err, !.inst = self.id]
        ELSE [NoCall EXCEPT !.op = "respond", !.msg = user_msg, !.status = "ok",
                            !.reply = reply_text.text, !.mood = mood, !.inst = self.id]

respond_mood_of_template(self, user_msg) ==
    LET mood == _detect_mood(user_msg)
        template == SelectTemplate(self.templates, mood)
        reply_text == format(template, self.name, user_msg)
        shown == IF mood \in DOMAIN self.templates /\ Truthy(self.templates[mood])
                 THEN mood ELSE "neutral"
    IN  IF reply_text.err # "none"
        THEN [NoCall EXCEPT !.op = "respond", !.msg = user_msg, !.status = "raised",
                            !.err = reply_text.err, !.inst = self.id]
        ELSE [NoCall EXCEPT !.op = "respond", !.msg = user_msg, !.status = "ok",
                            !.reply = reply_text.text, !.mood = shown, !.inst = self.id]

respond(self, user_msg) ==
    LET mood == _detect_mood(user_msg)
        template == SelectTemplate(self.templates, mood)
        reply_text == format(template, self.name, user_msg)
    IN  IF reply_text.err # "none"
        THEN [NoCall EXCEPT !.op = "respond", !.msg = user_msg, !.status = "raised",
                            !.err = reply_text.err, !.inst = self.id]
        ELSE [NoCall EXCEPT !.op = "respond", !.msg = user_msg, !.status = "ok",
                            !.reply = reply_text.text, !.mood = mood, !.inst = self.id]

SelfAfterRespond_poisons(self, user_msg) ==
    IF respond(self, user_msg).status = "raised"
    THEN [self EXCEPT !.templates = <<>>] ELSE self

\* the engine object as respond() leaves it: no attribute is assigned
SelfAfterRespond(self, user_msg) == self

SelfAfterReset_clears(self) == [self EXCEPT !.templates = <<>>]

\* the engine object as reset() leaves it: the body is a bare return
SelfAfterReset(self) == self

reset(self) == [NoCall EXCEPT !.op = "reset", !.status = "ok", !.inst = self.id]

\* SoloEngine.__init__ on a mapping that has both keys and a name
SoloEngine(char_data, id) ==
    [id |-> id, name |-> char_data["basic_info"]["name"],
     templates |-> char_data["speech_patterns"]]

----------------------------------------------------------------------------
(* Profiles *)

N_Damian == <<"D", "a", "m", "i", "a", "n">>
N_braces == <<"{", "m", "s", "g", "}">>

T_says    == <<"{","n","a","m","e","}"," ","s","a","y","s",":"," ","{","m","s","g","}">>
T_snaps   == <<"{","n","a","m","e","}"," ","s","n","a","p","s",":"," ","{","m","s","g","}">>
T_empty   == <<>>
T_plain   == <<".", ".", ".">>
T_user    == <<"{","u","s","e","r","}",":"," ","{","m","s","g","}">>
T_escaped == <<"{","{","m","s","g","}","}">>
T_short   == <<"{","m","s","g",":",".","2","}","~">>
T_open    == <<"{","m","s","g","}"," ","{">>

Names == {N_Damian, N_braces}
Templates == {T_says, T_snaps, T_empty, T_plain, T_user, T_escaped, T_short, T_open}

TemplateMaps == UNION { [K -> Templates] : K \in SUBSET Moods }

CharData(n, tm) == [basic_info |-> [name |-> n], speech_patterns |-> tm]

Engines == { SoloEngine(CharData(n, tm), 1) : n \in Names, tm \in TemplateMaps }

M_mad   == <<"m", "a", "d">>
M_xi    == <<"xi">>
M_blank == <<>>

Messages == {M_so_mad, M_hello, M_mad, M_xi, M_blank, M_braces, M_love_mad, M_Happy}

----------------------------------------------------------------------------
(* The engine's methods on every profile *)

InitEngine ==
    /\ source = File("unreadable", EmptyMap)
    /\ _engine \in Engines
    /\ reads = 0
    /\ writes = 0
    /\ pc = [t \in Threads |-> "idle"]
    /\ loc = [t \in Threads |-> NoRequest]
    /\ used = {}
    /\ arg = <<>>
    /\ last = NoCall

EngineRespond ==
    \E m \in Messages :
        /\ last' = respond(_engine, m)
        /\ _engine' = SelfAfterRespond(_engine, m)
        /\ UNCHANGED <<source, reads, writes, pc, loc, used, arg>>

EngineReset ==
    /\ last' = reset(_engine)
    /\ _engine' = SelfAfterReset(_engine)
    /\ UNCHANGED <<source, reads, writes, pc, loc, used, arg>>

NextEngine == EngineRespond \/ EngineReset

SpecEngine == InitEngine /\ [][NextEngine]_vars

----------------------------------------------------------------------------
(* Properties of the engine's methods *)

\* the template a lookup keyed on absence alone would select
TemplateByAbsence(templates, mood) ==
    IF mood \in DOMAIN templates THEN templates[mood]
    ELSE IF "neutral" \in DOMAIN templates THEN templates["neutral"]
    ELSE DefaultTemplate

\* C2: respond renders the template stored under the detected mood whenever
\* that key is present, else the one stored under "neutral", else the literal
\* pattern that renders as the message; only an absent key falls back.
C2_FallbackByAbsence ==
    last.op = "respond" =>
        LET t == TemplateByAbsence(_engine.templates, _detect_mood(last.msg))
            r == format(t, _engine.name, last.msg)
        IN  IF r.err = "none"
            THEN last.status = "ok" /\ last.reply = r.text
            ELSE last.status = "raised" /\ last.err = r.err

\* C6: a reset() step returns normally, leaves the engine's name and
\* templates as they were, and leaves the outcome of respond(m) the same for
\* every message m.
C6_ResetNoEffect ==
    [][ last'.op = "reset" =>
           /\ last'.status = "ok"
           /\ _engine'.name = _engine.name
           /\ _engine'.templates = _engine.templates
           /\ \A m \in Messages : respond(_engine', m) = respond(_engine, m) ]_vars

\* a reset() has returned on an engine that has an anger template
C6_Witness ==
    /\ last.op = "reset"
    /\ last.status = "ok"
    /\ "angry" \in DOMAIN _engine.templates
    /\ respond(_engine, M_so_mad).status = "ok"

\* the template has a replacement field whose field name is f
HasField(t, f) ==
    \E i \in 1..Len(Parse(t)) : Parse(t)[i].k = "field" /\ Parse(t)[i].name = f

\* the template has the replacement field {f} with no format spec
HasPlainField(t, f) ==
    \E i \in 1..Len(Parse(t)) :
        /\ Parse(t)[i].k = "field"
        /\ Parse(t)[i].name = f
        /\ Parse(t)[i].spec = <<>>

Selected == SelectTemplate(_engine.templates, _detect_mood(last.msg))

C10_MoodIsDetected ==
    (last.op = "respond" /\ last.status = "ok") =>
        /\ last.mood \in Moods
        /\ last.mood = _detect_mood(last.msg)

\* only neutral and angry templates, a message with a happiness keyword
C10_Witness ==
    /\ last.op = "respond"
    /\ last.status = "ok"
    /\ DOMAIN _engine.templates = {"neutral", "angry"}
    /\ _engine.templates["neutral"] = T_says
    /\ _engine.name = N_Damian
    /\ last.msg = M_xi
    /\ last.mood = "happy"
    /\ last.reply = N_Damian \o <<" ","s","a","y","s",":"," ">> \o M_xi

----------------------------------------------------------------------------
(* The configuration source and the loader *)

TM_scenario == [neutral |-> T_says, angry |-> T_snaps]
TM_user     == [neutral |-> T_says, happy |-> T_user]
TM_blank    == [angry |-> T_empty, happy |-> T_short]

ValidFiles ==
    { File("mapping", CharData(N_Damian, TM_scenario)),
      File("mapping", CharData(N_Damian, TM_user)),
      File("mapping", CharData(N_braces, TM_blank)) }

InvalidFiles ==
    { File("unreadable", EmptyMap),
      File("malformed", EmptyMap),
      File("empty", EmptyMap),
      File("mapping", EmptyMap),
      File("mapping", [speech_patterns |-> TM_scenario]),
      File("mapping", [basic_info |-> [name |-> N_Damian]]),
      File("mapping", [basic_info |-> EmptyMap, speech_patterns |-> TM_scenario]) }

Files == ValidFiles \cup InvalidFiles

Raise(e) == [err |-> e, eng |-> None]

\* SoloEngine.from_yaml; id names the instance cls(data) creates
from_yaml(file, id) ==
    IF file.kind = "unreadable" THEN Raise("OSError")
    ELSE IF file.kind = "malformed" THEN Raise("YAMLError")
    ELSE IF file.kind = "empty" THEN Raise("TypeError")
    ELSE IF "basic_info" \notin DOMAIN file.map THEN Raise("ValueError")
    ELSE IF "speech_patterns" \notin DOMAIN file.map THEN Raise("ValueError")
    ELSE IF "name" \notin DOMAIN file.map["basic_info"] THEN Raise("KeyError")
    ELSE [err |-> "none", eng |-> SoloEngine(file.map, id)]

_load_engine_always(global, file, nread) ==
    LET r == from_yaml(file, nread + 1)
    IN  IF r.err # "none"
        THEN [err |-> r.err, global |-> global, ret |-> None, nreads |-> 1, nwrites |-> 0]
        ELSE [err |-> "none", global |-> r.eng, ret |-> r.eng, nreads |-> 1, nwrites |-> 1]

_load_engine_retries(global, file, nread) ==
    IF global = None
    THEN LET r == from_yaml(file, nread + 1)
         IN  IF r.err # "none"
             THEN [err |-> r.err, global |-> global, ret |-> None, nreads |-> 2, nwrites |-> 0]
             ELSE [err |-> "none", global |-> r.eng, ret |-> r.eng, nreads |-> 1, nwrites |-> 1]
    ELSE [err |-> "none", global |-> global, ret |-> global, nreads |-> 0, nwrites |-> 0]

\* _load_engine run without interruption: the value of the global _engine
\* afterwards, the engine returned, and how often the source was read and
\* the global written
_load_engine(global, file, nread) ==
    IF global = None
    THEN LET r == from_yaml(file, nread + 1)
         IN  IF r.err # "none"
             THEN [err |-> r.err, global |-> global, ret |-> None, nreads |-> 1, nwrites |-> 0]
             ELSE [err |-> "none", global |-> r.eng, ret |-> r.eng, nreads |-> 1, nwrites |-> 1]
    ELSE [err |-> "none", global |-> global, ret |-> global, nreads |-> 0, nwrites |-> 0]

----------------------------------------------------------------------------
(* The routes, one request at a time *)

Init ==
    /\ source \in Files
    /\ _engine = None
    /\ reads = 0
    /\ writes = 0
    /\ pc = [t \in Threads |-> "idle"]
    /\ loc = [t \in Threads |-> NoRequest]
    /\ used = {}
    /\ arg = <<>>
    /\ last = NoCall

LoadFailed(op, m, ld) ==
    [NoCall EXCEPT !.op = op, !.msg = m, !.status = "raised", !.err = ld.err,
                   !.nreads = ld.nreads]

\* POST /respond
RespondRoute ==
    \E m \in Messages :
        LET ld == _load_engine(_engine, source, reads)
        IN  /\ reads + ld.nreads <= MaxReads
            /\ reads' = reads + ld.nreads
            /\ writes' = writes + ld.nwrites
            /\ IF ld.err # "none"
               THEN /\ _engine' = ld.global
                    /\ last' = LoadFailed("respond", m, ld)
                    /\ used' = used
               ELSE /\ _engine' = SelfAfterRespond(ld.global, m)
                    /\ last' = [respond(ld.ret, m) EXCEPT !.nreads = ld.nreads]
                    /\ used' = used \cup {ld.ret.id}
            /\ UNCHANGED <<source, pc, loc, arg>>

\* POST /reset
ResetRoute ==
    LET ld == _load_engine(_engine, source, reads)
    IN  /\ reads + ld.nreads <= MaxReads
        /\ reads' = reads + ld.nreads
        /\ writes' = writes + ld.nwrites
        /\ IF ld.err # "none"
           THEN /\ _engine' = ld.global
                /\ last' = LoadFailed("reset", <<>>, ld)
                /\ used' = used
           ELSE /\ _engine' = SelfAfterReset(ld.global)
                /\ last' = [reset(ld.ret) EXCEPT !.nreads = ld.nreads]
                /\ used' = used \cup {ld.ret.id}
        /\ UNCHANGED <<source, pc, loc, arg>>

\* GET /health
HealthRoute ==
    /\ last' = [NoCall EXCEPT !.op = "health", !.status = "ok"]
    /\ UNCHANGED <<source, _engine, reads, writes, pc, loc, used, arg>>

\* the file at CHAR_YAML_PATH is replaced from outside the process
EditSource ==
    /\ source' \in Files \ {source}
    /\ UNCHANGED <<_engine, reads, writes, pc, loc, used, arg, last>>

Next == RespondRoute \/ ResetRoute \/ HealthRoute \/ EditSource

Spec == Init /\ [][Next]_vars

----------------------------------------------------------------------------
(* Properties of the loader and the routes *)

\* a step that leaves the source alone is a request; last'.op names its route
IsRequest(ops) == source' = source /\ last'.op \in ops

\* the document has both top-level keys and a name
WellFormed(file) ==
    /\ file.kind = "mapping"
    /\ {"basic_info", "speech_patterns"} \subseteq DOMAIN file.map
    /\ "name" \in DOMAIN file.map["basic_info"]

\* C4: once the engine is loaded, no step replaces or unsets the global
\* reference or reads the source, and every later /respond and /reset uses
\* that same instance.
C4_LoadedOnceForGood ==
    [][ _engine # None =>
           /\ _engine' = _engine
           /\ reads' = reads
           /\ writes' = writes
           /\ IsRequest({"respond", "reset"}) =>
                 (last'.inst = _engine.id /\ last'.nreads = 0) ]_vars

\* the source has been made invalid after the load and requests still succeed
C4_Witness ==
    /\ _engine # None
    /\ ~WellFormed(source)
    /\ last.op = "respond"
    /\ last.status = "ok"
    /\ last.nreads = 0
    /\ last.inst = _engine.id

\* C5: a request that fails in the loader fails with ValueError, constructs
\* no engine and leaves the global reference unset; and every load from a
\* source that is not well formed fails.
C5_OneErrorKind ==
    [][ (IsRequest({"respond", "reset"}) /\ _engine = None /\ ~WellFormed(source)) =>
           /\ last'.status = "raised"
           /\ last'.err = "ValueError"
           /\ last'.inst = 0
           /\ _engine' = None ]_vars

\* C7: no /respond request, failing in str.format or not, changes a loaded
\* engine: the global reference, its name and its templates stay as they
\* were (as loaded, when the request itself loaded them), so every later
\* respond(m) returns what it would have returned without the request.
C7_RespondLeavesEngine ==
    [][ IsRequest({"respond"}) =>
           /\ _engine # None =>
                 /\ _engine' = _engine
                 /\ \A m \in Messages : respond(_engine', m) = respond(_engine, m)
           /\ (_engine = None /\ WellFormed(source)) =>
                 /\ _engine'.name = source.map["basic_info"]["name"]
                 /\ _engine'.templates = source.map["speech_patterns"]
           /\ (last'.status = "raised" /\ last'.inst # 0) => last'.reply = <<>> ]_vars

\* a /respond has failed on the unknown placeholder {user}, and a message of
\* neutral mood is still answered from the same engine
C7_Witness ==
    /\ last.op = "respond"
    /\ last.status = "raised"
    /\ last.err = "KeyError"
    /\ last.inst = _engine.id
    /\ _engine.templates = TM_user
    /\ respond(_engine, M_hello).status = "ok"
    /\ respond(_engine, M_hello).reply = N_Damian \o <<" ","s","a","y","s",":"," ">> \o M_hello

\* C9: a /respond or /reset arriving while the engine is unset reads the
\* source exactly once; if the source is not well formed the request fails
\* with no reply and the reference stays unset, otherwise the engine built
\* from the source is installed and used.  /health succeeds in every state
\* and neither reads the source nor touches the reference.
C9_FailedLoadRetriedNextRequest ==
    [][ /\ IsRequest({"health"}) =>
              (last'.status = "ok" /\ reads' = reads /\ _engine' = _engine)
        /\ (IsRequest({"respond", "reset"}) /\ _engine = None) =>
              /\ reads' = reads + 1
              /\ last'.nreads = 1
              /\ IF WellFormed(source)
                 THEN /\ _engine' # None
                      /\ _engine'.name = source.map["basic_info"]["name"]
                      /\ _engine'.templates = source.map["speech_patterns"]
                      /\ last'.inst = _engine'.id
                 ELSE /\ _engine' = None
                      /\ last'.status = "raised"
                      /\ last'.reply = <<>>
                      /\ last'.mood = "none"
                      /\ last'.inst = 0 ]_vars

\* two loads have failed and the third, after the source was repaired, has
\* installed the engine
C9_Witness ==
    /\ _engine # None
    /\ reads = 3
    /\ writes = 1
    /\ last.nreads = 1
    /\ last.status = "ok"
    /\ last.inst = 3

----------------------------------------------------------------------------
(* The routes on the worker threads: _load_engine statement by statement *)

InitThreads ==
    /\ source \in ValidFiles
    /\ _engine = None
    /\ reads = 0
    /\ writes = 0
    /\ pc = [t \in Threads |-> "idle"]
    /\ loc = [t \in Threads |-> NoRequest]
    /\ used = {}
    /\ arg = <<>>
    /\ last = NoCall

\* a worker thread enters the /respond or the /reset handler
Enter(t) ==
    /\ pc[t] = "idle"
    /\ \/ \E m \in {M_so_mad, M_xi} :
             loc' = [loc EXCEPT ![t] = [op |-> "respond", msg |-> m, eng |-> None]]
       \/ loc' = [loc EXCEPT ![t] = [op |-> "reset", msg |-> <<>>, eng |-> None]]
    /\ pc' = [pc EXCEPT ![t] = "test"]
    /\ UNCHANGED <<source, _engine, reads, writes, used, arg, last>>

\* if _engine is None:
TestNone(t) ==
    /\ pc[t] = "test"
    /\ pc' = [pc EXCEPT ![t] = IF _engine = None THEN "construct" ELSE "return"]
    /\ UNCHANGED <<source, _engine, reads, writes, loc, used, arg, last>>

\* the right-hand side SoloEngine.from_yaml(CHAR_YAML_PATH)
Construct(t) ==
    /\ pc[t] = "construct"
    /\ LET r == from_yaml(source, reads + 1)
       IN  /\ reads' = reads + 1
           /\ IF r.err # "none"
              THEN /\ last' = [NoCall EXCEPT !.op = loc[t].op, !.msg = loc[t].msg,
                                             !.status = "raised", !.err = r.err,
                                             !.nreads = 1]
                   /\ loc' = [loc EXCEPT ![t] = NoRequest]
                   /\ pc' = [pc EXCEPT ![t] = "idle"]
              ELSE /\ last' = last
                   /\ loc' = [loc EXCEPT ![t].eng = r.eng]
                   /\ pc' = [pc EXCEPT ![t] = "store"]
    /\ UNCHANGED <<source, _engine, writes, used, arg>>

\* the assignment _engine = ...
Store(t) ==
    /\ pc[t] = "store"
    /\ _engine' = loc[t].eng
    /\ writes' = writes + 1
    /\ pc' = [pc EXCEPT ![t] = "return"]
    /\ UNCHANGED <<source, reads, loc, used, arg, last>>

\* return _engine
Return(t) ==
    /\ pc[t] = "return"
    /\ loc' = [loc EXCEPT ![t].eng = _engine]
    /\ pc' = [pc EXCEPT ![t] = "call"]
    /\ UNCHANGED <<source, _engine, reads, writes, used, arg, last>>

\* eng.respond(payload.message) or eng.reset(), and the response
Call(t) ==
    /\ pc[t] = "call"
    /\ last' = IF loc[t].op = "respond" THEN respond(loc[t].eng, loc[t].msg)
               ELSE reset(loc[t].eng)
    /\ used' = used \cup {loc[t].eng.id}
    /\ loc' = [loc EXCEPT ![t] = NoRequest]
    /\ pc' = [pc EXCEPT ![t] = "idle"]
    /\ UNCHANGED <<source, _engine, reads, writes, arg>>

NextThreads ==
    \E t \in Threads :
        Enter(t) \/ TestNone(t) \/ Construct(t) \/ Store(t) \/ Return(t) \/ Call(t)

SpecThreads == InitThreads /\ [][NextThreads]_vars

\* C3: however /respond and /reset requests interleave, the global _engine
\* is written at most once, the source is read at most once, and all
\* requests use one and the same engine instance.
C3_SingleLoad ==
    /\ writes <= 1
    /\ reads <= 1
    /\ Cardinality(used) <= 1

====
